---- MODULE Spec2Model ----
(***************************************************************************)
(* Request engine of the Google Maps web-service client (src/client.py):   *)
(* Client._request with its retry/backoff loop, the sent_times sliding     *)
(* window, Client._get_body, Client._generate_auth_url, the make_api_method*)
(* wrapper and the exception hierarchy of src/exception.py.                *)
(*                                                                         *)
(* Time is a discrete clock `now` counted in ticks (TicksPerSec ticks per  *)
(* second).  Computation takes no time: the clock only advances while no   *)
(* caller has an instantaneous step to take, so every delay observed in a  *)
(* behaviour comes from a time.sleep or from a network request in flight.  *)
(* Each caller (thread) runs at most one logical call at a time; the       *)
(* recursion of _request (lines 130 and 154) is a loop back to "start"     *)
(* with the same first_request_time and retry_counter + 1.                 *)
(***************************************************************************)
EXTENDS Integers, Sequences, FiniteSets, TLC

\* ---------------------------------------------------------------- bounds
NumThreads   == 2      \* callers sharing one client in the concurrent specification
TicksPerSec  == 4      \* clock resolution
MaxStartTime == 2      \* no new logical call starts at or after this instant
MaxReqDur    == 1      \* longest network request, in ticks
MaxQps       == 2      \* largest queries_per_second a client is built with
RandomSteps  == 2      \* random.random() is drawn from {0/RandomSteps .. (RandomSteps-1)/RandomSteps}
MaxCount     == 8      \* the observation counter obs.sends stops counting here

Threads == 1..NumThreads
None == "None"
NoTime == -1           \* first_request_time=None

\* ------------------------------------------------------ src/exception.py
\* class -> direct base classes
Bases ==
  [ Exception         |-> {},
    ValueError        |-> {"Exception"},
    ApiError          |-> {"Exception"},
    TransportError    |-> {"Exception"},
    HTTPError         |-> {"TransportError"},
    Timeout           |-> {"Exception"},
    _RetriableRequest |-> {"Exception"},
    _OverQueryLimit   |-> {"ApiError", "_RetriableRequest"} ]

RECURSIVE IsSubclass(_, _)
IsSubclass(c, k) == c = k \/ \E b \in Bases[c] : IsSubclass(b, k)

\* isinstance(e, k) for an exception value e
IsInstance(e, k) == IsSubclass(e.cls, k)

NoExc == [cls |-> None, status |-> None, message |-> None, status_code |-> 0]
ApiError(status, message) ==
  [cls |-> "ApiError", status |-> status, message |-> message, status_code |-> 0]
_OverQueryLimit(status, message) ==
  [cls |-> "_OverQueryLimit", status |-> status, message |-> message, status_code |-> 0]
HTTPError(status_code) ==
  [cls |-> "HTTPError", status |-> None, message |-> None, status_code |-> status_code]
Timeout == [cls |-> "Timeout", status |-> None, message |-> None, status_code |-> 0]
TransportError(e) ==
  [cls |-> "TransportError", status |-> None, message |-> e, status_code |-> 0]
ValueError == [cls |-> "ValueError", status |-> None, message |-> None, status_code |-> 0]

\* ------------------------------------------------------------- responses
_RETRIABLE_STATUSES == {500, 503, 504}

NoBody == [status |-> None, error_message |-> None]
Http(code, status, msg) ==
  [kind |-> "http", status_code |-> code,
   body |-> [status |-> status, error_message |-> msg]]
NoResponse == [kind |-> None, status_code |-> 0, body |-> NoBody]

\* what the remote (or the transport) may answer to one network send
Responses ==
  { Http(200, "OK", None), Http(200, "ZERO_RESULTS", None),
    Http(200, "OVER_QUERY_LIMIT", None), Http(200, "OVER_QUERY_LIMIT", "quota"),
    Http(200, "REQUEST_DENIED", "denied"),
    Http(500, None, None), Http(503, None, None), Http(504, None, None),
    Http(400, None, None),
    [kind |-> "timeout", status_code |-> 0, body |-> NoBody],
    [kind |-> "error", status_code |-> 0, body |-> NoBody] }

\* only the status "OK" is taken as a success
_get_bodyMutant(response) ==
  IF response.status_code # 200
    THEN [raised |-> TRUE, exc |-> HTTPError(response.status_code), body |-> NoBody]
  ELSE IF response.body.status = "OK"
    THEN [raised |-> FALSE, exc |-> NoExc, body |-> response.body]
  ELSE IF response.body.status = "OVER_QUERY_LIMIT"
    THEN [raised |-> TRUE,
          exc |-> _OverQueryLimit(response.body.status, response.body.error_message),
          body |-> NoBody]
  ELSE [raised |-> TRUE,
        exc |-> ApiError(response.body.status, response.body.error_message),
        body |-> NoBody]

\* Client._get_body: the body, or the exception raised
_get_body(response) ==
  IF response.status_code # 200
    THEN [raised |-> TRUE, exc |-> HTTPError(response.status_code), body |-> NoBody]
  ELSE IF response.body.status \in {"OK", "ZERO_RESULTS"}
    THEN [raised |-> FALSE, exc |-> NoExc, body |-> response.body]
  ELSE IF response.body.status = "OVER_QUERY_LIMIT"
    THEN [raised |-> TRUE,
          exc |-> _OverQueryLimit(response.body.status, response.body.error_message),
          body |-> NoBody]
  ELSE [raised |-> TRUE,
        exc |-> ApiError(response.body.status, response.body.error_message),
        body |-> NoBody]

\* line 150: the over-limit error is re-raised instead of retried
ReraisesMutant(e, retry_over_query_limit) == FALSE
Reraises(e, retry_over_query_limit) ==
  IsInstance(e, "_OverQueryLimit") /\ ~retry_over_query_limit

\* lines 131 and 155: the retry_counter handed to the next iteration
NextRetryCounterMutant(retry_counter) == retry_counter
NextRetryCounter(retry_counter) == retry_counter + 1

\* ------------------------------------------------------------ sent_times
\* collections.deque(maxlen).append
DequeAppendMutant(d, x, maxlen) == Append(d, x)
DequeAppend(d, x, maxlen) ==
  IF maxlen = 0 THEN d
  ELSE IF Len(d) = maxlen THEN Append(Tail(d), x)
  ELSE Append(d, x)

\* lines 137-140: the instant until which the caller sleeps before it
\* extracts the body (now, when it does not sleep)
ThrottleWakeMutant(sent, qps, t) == t
ThrottleWake(sent, qps, t) ==
  IF sent # << >> /\ Len(sent) = qps /\ t - sent[1] < TicksPerSec
    THEN t + (TicksPerSec - (t - sent[1]))
    ELSE t

\* --------------------------------------------------------------- backoff
RECURSIVE Pow(_, _)
Pow(b, e) == IF e = 0 THEN 1 ELSE b * Pow(b, e - 1)

CeilDiv(a, b) == (a + b - 1) \div b

\* line 102: delay_seconds = 0.5 * 1.5 ** (retry_counter - 1), as the
\* fraction <<numerator, denominator>> of a second
DelaySecondsMutant(retry_counter) == <<Pow(3, retry_counter), Pow(2, retry_counter + 1)>>
DelaySeconds(retry_counter) == <<Pow(3, retry_counter - 1), Pow(2, retry_counter)>>

\* line 105: time.sleep(delay_seconds * (random.random() + 0.5)) with
\* random.random() = r / RandomSteps, rounded up to whole ticks
SleepTicks(delay, r) ==
  CeilDiv(TicksPerSec * delay[1] * (2 * r + RandomSteps), delay[2] * 2 * RandomSteps)

\* ------------------------------------------------------------ URL builder
\* A dict is a set of <<key, value>> pairs with distinct keys; a query string
\* is a sequence of <<key, value>> pairs.
Keys(d) == {kv[1] : kv \in d}

\* the keys that occur, in the order Python compares the strings
KeyOrder == <<"address", "channel", "client", "key", "language", "region">>
KeyRank(k) == CHOOSE i \in 1..Len(KeyOrder) : KeyOrder[i] = k
KeyLess(a, b) == KeyRank(a) < KeyRank(b)

\* the items in descending order of their keys
SortedMutant(d) ==
  CHOOSE s \in [1..Cardinality(d) -> d] :
    \A i, j \in 1..Cardinality(d) : i < j => KeyLess(s[j][1], s[i][1])

\* sorted(d.items())
RECURSIVE Sorted(_)
Sorted(d) ==
  IF d = {} THEN << >>
  ELSE LET m == CHOOSE x \in d : \A y \in d : y = x \/ KeyLess(x[1], y[1])
       IN <<m>> \o Sorted(d \ {m})

\* dict(extra_params, **params): params win on a key collision
DictMerge(extra, params) ==
  params \cup {kv \in extra : kv[1] \notin Keys(params)}

\* urlencode (quote_plus of each value) followed by unquote_unreserved
QuotePlus(v) ==
  CASE v = "New York" -> "New+York"
    [] v = "a~b"      -> "a~b"
    [] OTHER          -> v

urlencode_params(params) ==
  [i \in 1..Len(params) |-> <<params[i][1], QuotePlus(params[i][2])>>]

\* sign_hmac: a keyed digest, determined by the secret and the payload
sign_hmac(secret, payload) == [hmac_sha1 |-> secret, over |-> payload]
NoSignature == [hmac_sha1 |-> None, over |-> <<None, << >> >>]

NoUrl == [raised |-> FALSE, path |-> None, query |-> << >>, signature |-> NoSignature]

\* getattr(self, "_extra_params", None) or {}; the attribute is << >> when
\* absent and <<v>> when set, v being None or a dict
AttrOrEmpty(attr) ==
  IF attr = << >> THEN {} ELSE IF attr[1].isNone THEN {} ELSE attr[1].items

PyNone == [isNone |-> TRUE, items |-> {}]
Dict(d) == [isNone |-> FALSE, items |-> d]

\* line 195: the client id is used whatever the endpoint accepts
UsesClientIdMutant(c, accepts_clientid) == c.client_id # None /\ c.client_secret # None
\* line 195: if accepts_clientid and self.client_id and self.client_secret
UsesClientId(c, accepts_clientid) ==
  accepts_clientid /\ c.client_id # None /\ c.client_secret # None

\* Client._generate_auth_url; params is [is_dict, items, list]
_generate_auth_url(c, attr, path, params, accepts_clientid) ==
  LET extra_params == AttrOrEmpty(attr)
      sorted == IF params.is_dict
                  THEN Sorted(DictMerge(extra_params, params.items))
                  ELSE Sorted(extra_params) \o params.list
  IN IF UsesClientId(c, accepts_clientid)
       THEN LET withAuth == (IF c.channel # None
                               THEN Append(sorted, <<"channel", c.channel>>)
                               ELSE sorted) \o << <<"client", c.client_id>> >>
                q == urlencode_params(withAuth)
            IN [raised |-> FALSE, path |-> path, query |-> q,
                signature |-> sign_hmac(c.client_secret, <<path, q>>)]
     ELSE IF c.key # None
       THEN [raised |-> FALSE, path |-> path,
             query |-> urlencode_params(Append(sorted, <<"key", c.key>>)),
             signature |-> NoSignature]
     ELSE [raised |-> TRUE, path |-> path, query |-> << >>, signature |-> NoSignature]

\* src/geocoding.py geocode: the parameter mapping built from the arguments
GeocodePath == "/maps/api/geocode/json"
geocode_params(address, region, language) ==
  [is_dict |-> TRUE,
   items |-> (IF address # None THEN {<<"address", address>>} ELSE {})
        \cup (IF region # None THEN {<<"region", region>>} ELSE {})
        \cup (IF language # None THEN {<<"language", language>>} ELSE {}),
   list |-> << >>]
NoParams == [is_dict |-> TRUE, items |-> {}, list |-> << >>]

\* ------------------------------------------------------------------ state
VARIABLES
  client,       \* the configuration Client.__init__ stores (immutable afterwards)
  sent_times,   \* self.sent_times, oldest first
  extra_attr,   \* self._extra_params: << >> when absent, <<v>> when set
  now,          \* wall clock, in ticks
  callers,      \* the threads that use the client
  env,          \* what the callers do: [horizon, languages, accepts, extras], and
                \* args, the <<key, client_id, client_secret, channel>> given to Client()
  th,           \* per thread: the frame of its logical call
  obs,          \* per thread: history of the call in progress (observation only)
  recorded,     \* the last queries_per_second + 1 timestamps appended to sent_times (observation only)
  send_log      \* while every answer was a success: the dispatch instants of the
                \* client's first queries_per_second + 1 sends, and whether a
                \* throttle sleep has happened (observation only)

vars == <<client, sent_times, extra_attr, now, callers, env, th, obs, recorded, send_log>>

\* ----------------------------------------------------- Client.__init__
\* lines 35-49: the argument checks that raise ValueError
KeysWithPrefix == {"AIzaKey"}                      \* the keys k with k.startswith("AIza")
InitRaisesMutant(key, client_id, client_secret, channel) ==
  \/ key = None /\ ~(client_secret # None /\ client_id # None)
  \/ channel # None /\ client_id = None
InitRaises(key, client_id, client_secret, channel) ==
  \/ key = None /\ ~(client_secret # None /\ client_id # None)
  \/ key # None /\ key \notin KeysWithPrefix
  \/ channel # None /\ client_id = None

\* lines 51-83
ClientInit(key, client_id, client_secret, retry_timeout, queries_per_second, channel, retry_over_query_limit) ==
  [session |-> "Session",
   key |-> key, client_id |-> client_id, client_secret |-> client_secret,
   channel |-> channel, retry_timeout |-> retry_timeout,
   queries_per_second |-> queries_per_second,
   retry_over_query_limit |-> retry_over_query_limit]

\* Client() raised before line 51: no session, no configuration, no sent_times
NoClient ==
  [session |-> None, key |-> None, client_id |-> None, client_secret |-> None,
   channel |-> None, retry_timeout |-> 0, queries_per_second |-> 0,
   retry_over_query_limit |-> TRUE]

RetryTimeoutChoices == {1}        \* seconds; the constructor default is 60

IdleFrame ==
  [pc |-> "idle", wrapped |-> FALSE, params |-> NoParams, accepts_clientid |-> TRUE,
   first_request_time |-> NoTime, retry_counter |-> 0, wake |-> 0,
   response |-> NoResponse, authed_url |-> NoUrl, result |-> NoBody, exc |-> NoExc]

\* counting for obs, saturating at MaxCount
CountUp(n) == IF n < MaxCount THEN n + 1 ELSE n

NoObs ==
  [own_extra |-> PyNone, sends |-> 0, checks |-> 0, backoffs |-> << >>,
   only5xx |-> TRUE, last_dur |-> 0, site |-> None, answer |-> None]

\* send_log once an answer was not a success
NoLog == [times |-> << >>, all_ok |-> FALSE, waited |-> FALSE]

InitWith(creds, qpsChoices, oqlChoices, rtChoices, who, e) ==
  /\ \E cr \in creds, q \in qpsChoices, o \in oqlChoices, rt \in rtChoices :
       /\ client = IF InitRaises(cr[1], cr[2], cr[3], cr[4]) THEN NoClient
                   ELSE ClientInit(cr[1], cr[2], cr[3], rt, q, cr[4], o)
       /\ env = [horizon |-> e.horizon, languages |-> e.languages,
                 accepts |-> e.accepts, extras |-> e.extras, args |-> cr]
  /\ sent_times = << >>
  /\ extra_attr = << >>
  /\ now = 0
  /\ callers = who
  /\ th = [t \in Threads |-> IdleFrame]
  /\ obs = [t \in Threads |-> NoObs]
  /\ recorded = << >>
  /\ send_log = [times |-> << >>, all_ok |-> TRUE, waited |-> FALSE]

ExtraParamChoices == { PyNone, Dict({<<"language", "fr">>}) }
AddressChoices == {"New York"}
LanguageChoices == {None, "en"}
KeyOnly == <<"AIzaKey", None, None, None>>
Enterprise == <<None, "foo", "s3cret", "abc">>
EnterpriseNoChannel == <<None, "foo", "s3cret", None>>
KeyAndEnterprise == <<"AIzaKey", "foo", "s3cret", "abc">>
NoCredentials == <<None, None, None, None>>
NoSecret == <<None, "foo", None, None>>
BadKey == <<"badkey", None, None, None>>
BadKeyAndEnterprise == <<"badkey", "foo", "s3cret", None>>

\* one caller; calls start before MaxStartTime.  A client built with an API
\* key, for every queries_per_second and retry_over_query_limit, or a client
\* built with enterprise credentials calling endpoints that accept the
\* client id and endpoints that do not
Init ==
  \/ InitWith({KeyOnly}, 1..MaxQps, BOOLEAN, RetryTimeoutChoices, {1},
              [horizon |-> MaxStartTime, languages |-> {None}, accepts |-> {TRUE},
               extras |-> {PyNone}])
  \/ InitWith({Enterprise}, {1}, {TRUE}, RetryTimeoutChoices, {1},
              [horizon |-> MaxStartTime, languages |-> {None}, accepts |-> BOOLEAN,
               extras |-> {PyNone}])

\* every thread calls the same client, built with an API key,
\* queries_per_second=1 and retry_timeout=0; all calls start at instant 0
InitConcurrent ==
  InitWith({KeyOnly}, {1}, {TRUE}, {0}, Threads,
           [horizon |-> 1, languages |-> {None}, accepts |-> {TRUE},
            extras |-> ExtraParamChoices])

\* one caller of a client built from every kind of credentials, valid or
\* not, with queries_per_second=1; every kind of call; all calls start at
\* instant 0
InitUrl ==
  InitWith({KeyOnly, Enterprise, EnterpriseNoChannel, KeyAndEnterprise,
            NoCredentials, NoSecret, BadKey, BadKeyAndEnterprise},
           {1}, {TRUE}, RetryTimeoutChoices, {1},
           [horizon |-> 1, languages |-> LanguageChoices, accepts |-> BOOLEAN,
            extras |-> ExtraParamChoices])

\* ----------------------------------------------------------- call inputs
RetryTimeoutTicks == client.retry_timeout * TicksPerSec

\* ---------------------------------------------------------------- actions
\* make_api_method wrapper, line 238, then func (geocode) entering _request
ApiMethod(t) ==
  /\ client.session # None
  /\ th[t].pc = "idle"
  /\ now < env.horizon
  /\ \E ep \in env.extras, a \in AddressChoices, l \in env.languages,
        acc \in env.accepts :
       /\ extra_attr' = <<ep>>
       /\ th' = [th EXCEPT ![t] = [IdleFrame EXCEPT !.pc = "start", !.wrapped = TRUE,
                                     !.params = geocode_params(a, None, l),
                                     !.accepts_clientid = acc]]
       /\ obs' = [obs EXCEPT ![t] = [NoObs EXCEPT !.own_extra = ep]]
  /\ UNCHANGED <<client, sent_times, now, callers, env, recorded, send_log>>

\* a caller invoking client._request(url, params) itself
DirectRequest(t) ==
  /\ client.session # None
  /\ th[t].pc = "idle"
  /\ now < env.horizon
  /\ \E a \in AddressChoices, acc \in env.accepts :
       th' = [th EXCEPT ![t] = [IdleFrame EXCEPT !.pc = "start",
                                  !.params = geocode_params(a, None, None),
                                  !.accepts_clientid = acc]]
  /\ obs' = [obs EXCEPT ![t] = NoObs]
  /\ UNCHANGED <<client, sent_times, extra_attr, now, callers, env, recorded, send_log>>

\* first_request_time taken anew in every iteration
FirstRequestTimeMutant(first_request_time, t_now) == t_now
\* lines 91-92: if not first_request_time: first_request_time = datetime.now()
FirstRequestTime(first_request_time, t_now) ==
  IF first_request_time = NoTime THEN t_now ELSE first_request_time

\* lines 91-105: capture first_request_time, deadline check, start of the
\* backoff sleep
RequestStart(t) ==
  /\ th[t].pc = "start"
  /\ LET f == th[t]
         first == FirstRequestTime(f.first_request_time, now)
         elapsed == now - first
     IN IF elapsed > RetryTimeoutTicks
          THEN /\ th' = [th EXCEPT ![t].pc = "raised", ![t].exc = Timeout,
                                   ![t].first_request_time = first]
               /\ obs' = [obs EXCEPT ![t].site = "deadline"]
        ELSE IF f.retry_counter > 0
          THEN \E r \in 0..(RandomSteps - 1) :
                 LET delay_seconds == DelaySeconds(f.retry_counter)
                 IN /\ th' = [th EXCEPT ![t].pc = "build",
                                        ![t].first_request_time = first,
                                        ![t].wake = now + SleepTicks(delay_seconds, r)]
                    /\ obs' = [obs EXCEPT ![t].backoffs = Append(@, delay_seconds),
                                          ![t].last_dur = 0]
        ELSE /\ th' = [th EXCEPT ![t].pc = "build", ![t].first_request_time = first,
                                 ![t].wake = now]
             /\ obs' = obs
  /\ UNCHANGED <<client, sent_times, extra_attr, now, callers, env, recorded, send_log>>

\* lines 107-122: after the backoff sleep, build the authenticated URL and
\* dispatch the network request
BuildAndSend(t) ==
  /\ th[t].pc = "build"
  /\ now >= th[t].wake
  /\ LET f == th[t]
         authed_url == _generate_auth_url(client, extra_attr, GeocodePath, f.params,
                                          f.accepts_clientid)
     IN IF authed_url.raised
          THEN /\ th' = [th EXCEPT ![t].pc = "raised", ![t].exc = ValueError,
                                   ![t].authed_url = authed_url]
               /\ obs' = [obs EXCEPT ![t].site = "auth"]
               /\ UNCHANGED send_log
          ELSE /\ \E dur \in 0..MaxReqDur :
                    /\ th' = [th EXCEPT ![t].pc = "inflight", ![t].authed_url = authed_url,
                                        ![t].wake = now + dur]
                    /\ obs' = [obs EXCEPT ![t].sends = CountUp(@), ![t].last_dur = dur]
               /\ send_log' = IF send_log.all_ok
                                   /\ Len(send_log.times) <= client.queries_per_second
                                THEN [send_log EXCEPT !.times = Append(@, now)]
                                ELSE send_log
  /\ UNCHANGED <<client, sent_times, extra_attr, now, callers, env, recorded>>

\* lines 120-140: the request returns or raises; retriable HTTP statuses
\* loop back; otherwise the sent_times window is read and the throttle sleep
\* starts
IsSuccess(response) ==
  /\ response.kind = "http"
  /\ response.status_code = 200
  /\ response.body.status \in {"OK", "ZERO_RESULTS"}

\* a request that timed out is tried again
AfterRequestMutant(response) ==
  IF response.kind = "error"
    THEN [next |-> "raise", exc |-> TransportError("ConnectionError")]
  ELSE IF response.kind = "timeout" \/ response.status_code \in _RETRIABLE_STATUSES
    THEN [next |-> "retry", exc |-> NoExc]
  ELSE [next |-> "throttle", exc |-> NoExc]
\* lines 120-132: what follows the call of requests_method
AfterRequest(response) ==
  IF response.kind = "timeout"
    THEN [next |-> "raise", exc |-> Timeout]
  ELSE IF response.kind = "error"
    THEN [next |-> "raise", exc |-> TransportError("ConnectionError")]
  ELSE IF response.status_code \in _RETRIABLE_STATUSES
    THEN [next |-> "retry", exc |-> NoExc]
  ELSE [next |-> "throttle", exc |-> NoExc]

Receive(t) ==
  /\ th[t].pc = "inflight"
  /\ now >= th[t].wake
  /\ \E response \in Responses :
       /\ IF AfterRequest(response).next = "raise"
            THEN /\ th' = [th EXCEPT ![t].pc = "raised",
                                     ![t].exc = AfterRequest(response).exc]
                 /\ obs' = [obs EXCEPT ![t].site = "transport", ![t].only5xx = FALSE,
                                       ![t].answer = response.kind]
          ELSE IF AfterRequest(response).next = "retry"
            THEN /\ th' = [th EXCEPT ![t].pc = "start",
                                     ![t].retry_counter = NextRetryCounter(@)]
                 /\ obs' = [obs EXCEPT ![t].answer = response.kind]
          ELSE /\ th' = [th EXCEPT ![t].pc = "classify", ![t].response = response,
                                   ![t].wake = ThrottleWake(sent_times,
                                                  client.queries_per_second, now)]
               /\ obs' = [obs EXCEPT ![t].last_dur = 0, ![t].checks = CountUp(@),
                                     ![t].answer = response.kind]
       /\ send_log' =
            IF ~send_log.all_ok \/ ~IsSuccess(response) THEN NoLog
            ELSE IF Len(send_log.times) <= client.queries_per_second
                    /\ ThrottleWake(sent_times, client.queries_per_second, now) > now
              THEN [send_log EXCEPT !.waited = TRUE]
            ELSE send_log
  /\ UNCHANGED <<client, sent_times, extra_attr, now, callers, env, recorded>>

\* the timestamp recorded before the body is extracted
SentTimesAfterMutant(sent, raised, t_now, maxlen) == DequeAppend(sent, t_now, maxlen)
\* lines 142-148: self.sent_times.append(time.time()) is reached only when
\* extracting the body did not raise
SentTimesAfter(sent, raised, t_now, maxlen) ==
  IF raised THEN sent ELSE DequeAppend(sent, t_now, maxlen)

\* lines 142-156: after the throttle sleep, extract the body; record the
\* timestamp and return, or raise, or retry
Classify(t) ==
  /\ th[t].pc = "classify"
  /\ now >= th[t].wake
  /\ LET f == th[t]
         r == _get_body(f.response)
     IN /\ sent_times' = SentTimesAfter(sent_times, r.raised, now,
                                         client.queries_per_second)
        /\ recorded' = SentTimesAfter(recorded, r.raised, now,
                                      client.queries_per_second + 1)
        /\ IF ~r.raised
             THEN /\ th' = [th EXCEPT ![t].pc = "returned", ![t].result = r.body,
                                      ![t].response = NoResponse]
                  /\ obs' = obs
           ELSE IF IsInstance(r.exc, "_RetriableRequest")
             THEN IF Reraises(r.exc, client.retry_over_query_limit)
                    THEN /\ th' = [th EXCEPT ![t].pc = "raised", ![t].exc = r.exc,
                                             ![t].response = NoResponse]
                         /\ obs' = [obs EXCEPT ![t].site = "body", ![t].only5xx = FALSE]
                    ELSE /\ th' = [th EXCEPT ![t].pc = "start",
                                             ![t].retry_counter = NextRetryCounter(@),
                                             ![t].response = NoResponse]
                         /\ obs' = [obs EXCEPT ![t].only5xx = FALSE]
           ELSE /\ th' = [th EXCEPT ![t].pc = "raised", ![t].exc = r.exc,
                                    ![t].response = NoResponse]
                /\ obs' = [obs EXCEPT ![t].site = "body", ![t].only5xx = FALSE]
  /\ UNCHANGED <<client, extra_attr, now, callers, env, send_log>>

\* the call is over: lines 239-244 of the wrapper delete _extra_params
\* after func returned (an exception leaves wrapper at line 239)
Finish(t) ==
  /\ th[t].pc \in {"returned", "raised"}
  /\ extra_attr' = IF th[t].wrapped /\ th[t].pc = "returned" THEN << >> ELSE extra_attr
  /\ th' = [th EXCEPT ![t] = IdleFrame]
  /\ obs' = [obs EXCEPT ![t] = NoObs]
  /\ UNCHANGED <<client, sent_times, now, callers, env, recorded, send_log>>

\* a thread asleep or waiting for the network
Waiting(t) == th[t].pc \in {"build", "inflight", "classify"} /\ th[t].wake > now
\* a thread with a step to take at this instant
Ready(t) == th[t].pc # "idle" /\ ~Waiting(t)

\* the clock advances
Tick ==
  /\ \A t \in callers : ~Ready(t)
  /\ (\E t \in callers : Waiting(t)) \/ now < env.horizon
  /\ now' = now + 1
  /\ UNCHANGED <<client, sent_times, extra_attr, callers, env, th, obs, recorded, send_log>>

Next ==
  \/ \E t \in callers : ApiMethod(t)
  \/ \E t \in callers : DirectRequest(t)
  \/ \E t \in callers : RequestStart(t)
  \/ \E t \in callers : BuildAndSend(t)
  \/ \E t \in callers : Receive(t)
  \/ \E t \in callers : Classify(t)
  \/ \E t \in callers : Finish(t)
  \/ Tick

Spec == Init /\ [][Next]_vars

SpecConcurrent == InitConcurrent /\ [][Next]_vars

SpecUrl == InitUrl /\ [][Next]_vars

\* the scheduler runs every thread that has a step to take, and time passes
Fairness ==
  /\ WF_vars(Tick)
  /\ \A t \in Threads :
       /\ WF_vars(RequestStart(t))
       /\ WF_vars(BuildAndSend(t))
       /\ WF_vars(Receive(t))
       /\ WF_vars(Classify(t))

\* one caller of a client built with an API key and queries_per_second=1;
\* all calls start at instant 0
InitLive ==
  InitWith({KeyOnly}, {1}, BOOLEAN, RetryTimeoutChoices, {1},
           [horizon |-> 1, languages |-> {None}, accepts |-> {TRUE},
            extras |-> {PyNone}])

SpecLive == InitLive /\ [][Next]_vars /\ Fairness

\* ------------------------------------------------------------------ claims
InCall(t) == th[t].pc \notin {"idle", "returned", "raised"}
Terminal(t) == th[t].pc \in {"returned", "raised"}
Qps == client.queries_per_second

\* a/b = c/d and a/b < c/d for fractions <<numerator, denominator>>
FracEq(x, y) == x[1] * y[2] = y[1] * x[2]
FracLess(x, y) == x[1] * y[2] < y[1] * x[2]

\* C1: a call answered by k responses with status 500, 503 or 504 and then by
\* 200 "OK" returns that body after exactly k + 1 sends and k backoff sleeps;
\* the base delay of the first sleep is 1/2 s, each later one is 3/2 of the
\* one before (1/2, 3/4, 9/8 for k = 3), strictly increasing.
C1_RetryThenOk ==
  \A t \in callers :
    (th[t].pc = "returned" /\ obs[t].only5xx /\ th[t].result.status = "OK") =>
      LET k == th[t].retry_counter
          b == obs[t].backoffs
      IN /\ obs[t].sends = k + 1
         /\ Len(b) = k
         /\ k >= 1 => FracEq(b[1], <<1, 2>>)
         /\ k >= 2 => FracEq(b[2], <<3, 4>>)
         /\ k >= 3 => FracEq(b[3], <<9, 8>>)
         /\ \A i \in 1..(k - 1) :
              /\ FracEq(b[i + 1], <<3 * b[i][1], 2 * b[i][2]>>)
              /\ FracLess(b[i], b[i + 1])

C1_Witness ==
  \E t \in callers :
    /\ th[t].pc = "returned" /\ obs[t].only5xx /\ th[t].result.status = "OK"
    /\ th[t].retry_counter = 3

\* C2: with retry_over_query_limit=False, once a 200 response with body status
\* OVER_QUERY_LIMIT has arrived the call makes no further send, no backoff
\* sleep and no increment of retry_counter: its only next step is to raise
\* the over-limit ApiError.
C2_NoRetryOverLimit ==
  [][\A t \in callers :
       ( /\ th[t].pc = "classify"
         /\ th[t].response.body.status = "OVER_QUERY_LIMIT"
         /\ ~client.retry_over_query_limit )
       => /\ th'[t].pc \in {"classify", "raised"}
          /\ obs'[t].sends = obs[t].sends
          /\ obs'[t].backoffs = obs[t].backoffs
          /\ th'[t].retry_counter = th[t].retry_counter
          /\ th'[t].pc = "raised" => IsInstance(th'[t].exc, "ApiError")]_vars

C2_Witness ==
  \E t \in callers :
    /\ th[t].pc = "raised" /\ th[t].exc.cls = "_OverQueryLimit"
    /\ ~client.retry_over_query_limit
    /\ th[t].retry_counter >= 1

\* C3 (as claimed): when every answer is a retriable status, Timeout is raised
\* no later than first_request_time + retry_timeout + the duration of the
\* request in flight, and no network send starts after the deadline.
C3_TimeoutWithinOneRequestOfDeadline ==
  \A t \in callers :
    obs[t].only5xx =>
      /\ (th[t].pc = "raised" /\ obs[t].site = "deadline") =>
           now <= th[t].first_request_time + RetryTimeoutTicks + obs[t].last_dur
      /\ th[t].pc = "inflight" =>
           th[t].wake - obs[t].last_dur <= th[t].first_request_time + RetryTimeoutTicks

\* C4 (as claimed): while all calls succeed, the first queries_per_second
\* sends go out before any throttle sleep, and send queries_per_second + 1 is
\* dispatched at least one second after the first.
C4_SendBlockedUntilWindowFree ==
  send_log.all_ok =>
    /\ Len(send_log.times) <= Qps => ~send_log.waited
    /\ Len(send_log.times) = Qps + 1 =>
         send_log.times[Qps + 1] - send_log.times[1] >= TicksPerSec

\* C5: with one caller, any queries_per_second + 1 consecutively recorded
\* timestamps span at least one second.
C5_RollingWindow ==
  Len(recorded) = Qps + 1 => recorded[Qps + 1] - recorded[1] >= TicksPerSec

C5_Witness ==
  /\ Qps = 2 /\ Len(recorded) = 3
  /\ recorded[3] - recorded[1] = TicksPerSec
  /\ recorded[2] > recorded[1]

\* C6: sent_times never holds more than queries_per_second timestamps, and it
\* is always the most recent ones that were appended: an append at capacity
\* drops the oldest and nothing else.
C6_WindowBounded ==
  /\ Len(sent_times) <= Qps
  /\ Len(sent_times) = IF Len(recorded) < Qps THEN Len(recorded) ELSE Qps
  /\ \A i \in 1..Len(sent_times) :
       sent_times[i] = recorded[Len(recorded) - Len(sent_times) + i]

C6_Witness ==
  /\ Len(sent_times) = Qps /\ Len(recorded) = Qps + 1
  /\ recorded[1] < sent_times[1]

\* C7 (as claimed): with several callers, no two calls are between reading the
\* window and appending to it at the same time, and the recorded timestamps
\* still respect the rolling window.
C7_WindowSerialized ==
  /\ \A t, u \in callers :
       (t # u /\ th[t].pc = "classify" /\ th[u].pc = "classify") =>
         ~(IsSuccess(th[t].response) /\ IsSuccess(th[u].response))
  /\ Len(recorded) = Qps + 1 => recorded[Qps + 1] >= recorded[1] + TicksPerSec

\* the extra parameters a built query string carries besides the call's own
\* parameters and the authentication parameters
ExtraInUrl(t) ==
  {th[t].authed_url.query[i] : i \in 1..Len(th[t].authed_url.query)}
    \ ({<<kv[1], QuotePlus(kv[2])>> : kv \in th[t].params.items}
       \cup {kv \in {th[t].authed_url.query[i] : i \in 1..Len(th[t].authed_url.query)} :
               kv[1] \in {"key", "client", "channel"}})

\* C8 (as claimed): the URL built for an API-method call carries exactly that
\* call's own extra parameters, also when another call runs on the client.
C8_OwnExtraParams ==
  \A t \in callers :
    (th[t].wrapped /\ th[t].pc \in {"inflight", "classify", "returned"}) =>
      ExtraInUrl(t) = {<<kv[1], QuotePlus(kv[2])>> :
                         kv \in {x \in obs[t].own_extra.items :
                                   x[1] \notin Keys(th[t].params.items)}}

\* C9 (as claimed): a call ends with the parsed body or with an error that is
\* not an instance of _RetriableRequest.
C9_NoRetriableEscapes ==
  \A t \in callers :
    /\ th[t].pc = "raised" => ~IsInstance(th[t].exc, "_RetriableRequest")
    /\ th[t].pc = "returned" => th[t].result.status \in {"OK", "ZERO_RESULTS"}

\* C10: every logical call eventually returns or raises, whatever the remote
\* answers, when time advances and requests and sleeps complete.
C10_CallTerminates ==
  \A t \in Threads : InCall(t) ~> Terminal(t)

C10_Witness ==
  \E t \in callers :
    /\ th[t].pc = "raised" /\ obs[t].site = "deadline"
    /\ th[t].retry_counter >= 2 /\ ~obs[t].only5xx

\* a thread whose frame holds an authenticated URL
UrlBuilt(t) == th[t].authed_url.path # None /\ ~th[t].authed_url.raised
\* what _generate_auth_url yields when built again from the frame's inputs
Rebuilt(t) ==
  _generate_auth_url(client, extra_attr, th[t].authed_url.path, th[t].params,
                     th[t].accepts_clientid)
AuthKeys == {"channel", "client", "key"}
IsAuthParam(kv) == kv[1] \in AuthKeys
IsCallParam(kv) == kv[1] \notin AuthKeys
KeysInOrder(q) == \A i, j \in 1..Len(q) : i < j => KeyRank(q[i][1]) < KeyRank(q[j][1])

WantsClientId(t) ==
  client.client_id # None /\ client.client_secret # None /\ th[t].accepts_clientid
QueryKeys(q) == {q[i][1] : i \in 1..Len(q)}

AuthSelected(t) ==
  LET u == th[t].authed_url
      q == u.query
  IN /\ WantsClientId(t) =>
          /\ ~u.raised
          /\ q[Len(q)] = <<"client", client.client_id>>
          /\ "key" \notin QueryKeys(q)
          /\ IF client.channel # None
               THEN q[Len(q) - 1] = <<"channel", client.channel>>
               ELSE "channel" \notin QueryKeys(q)
          /\ u.signature = [hmac_sha1 |-> client.client_secret, over |-> <<u.path, q>>]
     /\ (~WantsClientId(t) /\ client.key # None) =>
          /\ ~u.raised
          /\ q[Len(q)] = <<"key", client.key>>
          /\ QueryKeys(q) \cap {"client", "channel"} = {}
          /\ u.signature = NoSignature
     /\ (~WantsClientId(t) /\ client.key = None) =>
          /\ u.raised
          /\ th[t].pc = "raised" /\ th[t].exc = ValueError
          /\ obs[t].sends = 0

\* C12: the URL ends with client (after channel, when configured) and is
\* signed, without key, exactly when client_id and client_secret are
\* configured and the endpoint accepts the client id; otherwise it ends with
\* key exactly when an API key is configured; otherwise the call raises
\* ValueError, having made no send and with sent_times as it was on entry.
C12_AuthSelection ==
  [][\A t \in callers :
       /\ (th'[t].authed_url # th[t].authed_url /\ th'[t].pc # "idle")
            => AuthSelected(t)'
       /\ (th[t].pc \in {"idle", "start", "build"} /\ th'[t].pc # "idle"
              /\ ~WantsClientId(t)' /\ client.key = None)
            => /\ sent_times' = sent_times
               /\ th'[t].pc \in {"start", "build", "raised"}
               /\ obs'[t].sends = 0]_vars

C12_Witness ==
  \E t \in callers :
    /\ th[t].pc = "raised" /\ th[t].exc = ValueError
    /\ client.client_id # None /\ ~th[t].accepts_clientid
    /\ sent_times # << >>

\* C13: when Client() is given neither an API key nor both client_id and
\* client_secret, or an API key without the required prefix, construction
\* fails before the session and sent_times exist, and no request is ever sent
\* through that client.
C13_FailedConstruction ==
  LET key == env.args[1]
      client_id == env.args[2]
      client_secret == env.args[3]
  IN ( \/ key = None /\ (client_id = None \/ client_secret = None)
       \/ key # None /\ key \notin KeysWithPrefix )
     => /\ client.session = None
        /\ client = NoClient
        /\ sent_times = << >>
        /\ send_log.times = << >>
        /\ \A t \in callers : th[t].pc = "idle" /\ obs[t].sends = 0

C13_Witness ==
  /\ env.args[1] # None /\ env.args[1] \notin KeysWithPrefix
  /\ env.args[2] # None /\ env.args[3] # None
  /\ client.session = None
  /\ now >= env.horizon

\* C14: first_request_time is captured once, on entry, and is the same in
\* every retry iteration; an iteration that starts more than retry_timeout
\* after it raises Timeout whatever the attempt count, without a backoff
\* sleep, a URL build, a network send or a change to sent_times.
C14_DeadlineFromFirstAttempt ==
  [][\A t \in callers :
       /\ (th[t].pc = "start" /\ th[t].first_request_time = NoTime)
            => th'[t].first_request_time = now
       /\ (th[t].first_request_time # NoTime /\ th'[t].pc # "idle")
            => th'[t].first_request_time = th[t].first_request_time
       /\ ( /\ th[t].pc = "start" /\ th[t].first_request_time # NoTime
            /\ now - th[t].first_request_time > client.retry_timeout * TicksPerSec )
            => /\ th'[t].pc = "raised" /\ th'[t].exc = Timeout
               /\ now' = now
               /\ obs'[t].backoffs = obs[t].backoffs
               /\ obs'[t].sends = obs[t].sends
               /\ th'[t].authed_url = th[t].authed_url
               /\ send_log' = send_log
               /\ sent_times' = sent_times]_vars

C14_Witness ==
  \E t \in callers :
    /\ th[t].pc = "raised" /\ th[t].exc = Timeout /\ obs[t].site = "deadline"
    /\ th[t].retry_counter >= 2
    /\ th[t].first_request_time > 0
    /\ sent_times # << >>

\* C15 (as claimed): in every iteration the rate-limit check and wait come
\* after the URL is built and before the request is dispatched, never after
\* the response has been received.
C15_ThrottleBeforeSend ==
  \A t \in callers :
    /\ th[t].response # NoResponse => th[t].wake <= now
    /\ (th[t].pc = "inflight" /\ send_log.all_ok /\ Len(send_log.times) = Qps + 1)
         => send_log.waited

\* C16 (as claimed): the rate-limit check runs exactly once for every
\* network send, the sends answered with 500, 503 or 504 included, and not
\* in an iteration that sends nothing: whenever a call has its answer, it
\* has made as many checks as sends.
C16_ThrottleOncePerSend ==
  \A t \in callers :
    /\ obs[t].checks <= obs[t].sends
    /\ th[t].pc \in {"start", "classify", "returned"}
         => obs[t].checks = obs[t].sends

\* C17: sent_times changes only in the step in which a call returns a body
\* with status OK or ZERO_RESULTS, which appends exactly one timestamp, the
\* current time; a step that raises or goes into a retry leaves it as it was.
C17_RecordedOnlyOnSuccess ==
  [][/\ sent_times' # sent_times =>
          \E t \in callers :
            /\ th[t].pc = "classify" /\ th'[t].pc = "returned"
            /\ th'[t].result.status \in {"OK", "ZERO_RESULTS"}
     /\ \A t \in callers :
          /\ (th[t].pc # "returned" /\ th'[t].pc = "returned") =>
               /\ \/ sent_times' = Append(sent_times, now)
                  \/ sent_times # << >> /\ sent_times' = Append(Tail(sent_times), now)
               /\ Len(sent_times') <= client.queries_per_second
          /\ ( \/ th[t].pc # "raised" /\ th'[t].pc = "raised"
               \/ th[t].pc \in {"inflight", "classify"} /\ th'[t].pc = "start" )
               => sent_times' = sent_times]_vars

C17_Witness ==
  \E t \in callers :
    /\ th[t].pc = "returned" /\ th[t].result.status = "ZERO_RESULTS"
    /\ th[t].retry_counter >= 1 /\ ~obs[t].only5xx
    /\ client.queries_per_second = 2 /\ Len(sent_times) = 2

\* C18: a request that ends in a transport failure ends the call in the same
\* step: a timeout raises Timeout and any other transport exception raises
\* TransportError wrapping it; no retry, send or backoff sleep follows,
\* whatever the attempt count and the time left before the deadline.
C18_TransportFailureEndsCall ==
  [][\A t \in callers :
       obs'[t].answer \in {"timeout", "error"} =>
         /\ th'[t].pc = "raised"
         /\ obs'[t].answer = "timeout" => th'[t].exc = Timeout
         /\ obs'[t].answer = "error" =>
              /\ th'[t].exc.cls = "TransportError"
              /\ th'[t].exc.message = "ConnectionError"
         /\ ~IsInstance(th'[t].exc, "_RetriableRequest")
         /\ obs'[t].sends = obs[t].sends
         /\ obs'[t].backoffs = obs[t].backoffs
         /\ th'[t].retry_counter = th[t].retry_counter
         /\ sent_times' = sent_times
         /\ now' = now]_vars

C18_Witness ==
  \E t \in callers :
    /\ th[t].pc = "raised" /\ obs[t].answer = "error"
    /\ th[t].retry_counter >= 1
    /\ now - th[t].first_request_time < client.retry_timeout * TicksPerSec

\* C19: a response with a status other than 200 raises HTTPError carrying
\* the status code; a 200 response returns the body when its status is OK or
\* ZERO_RESULTS, gives the retriable over-limit outcome carrying the
\* error_message when it is OVER_QUERY_LIMIT, and raises ApiError carrying
\* the status and the error_message otherwise; a status other than 200, 500,
\* 503 and 504 is never retried.
C19_Classification ==
  [][\A t \in callers :
       (th[t].pc = "classify" /\ th'[t].pc # "classify") =>
         LET code == th[t].response.status_code
             status == th[t].response.body.status
             error_message == th[t].response.body.error_message
         IN /\ code # 200 =>
                 /\ th'[t].pc = "raised"
                 /\ th'[t].exc.cls = "HTTPError" /\ th'[t].exc.status_code = code
                 /\ th'[t].retry_counter = th[t].retry_counter
            /\ (code = 200 /\ status \in {"OK", "ZERO_RESULTS"}) =>
                 /\ th'[t].pc = "returned"
                 /\ th'[t].result = th[t].response.body
            /\ (code = 200 /\ status = "OVER_QUERY_LIMIT") =>
                 IF client.retry_over_query_limit
                   THEN /\ th'[t].pc = "start"
                        /\ th'[t].retry_counter = th[t].retry_counter + 1
                   ELSE /\ th'[t].pc = "raised"
                        /\ th'[t].exc.cls = "_OverQueryLimit"
                        /\ th'[t].exc.status = status
                        /\ th'[t].exc.message = error_message
            /\ (code = 200 /\ status \notin {"OK", "ZERO_RESULTS", "OVER_QUERY_LIMIT"}) =>
                 /\ th'[t].pc = "raised"
                 /\ th'[t].exc.cls = "ApiError"
                 /\ th'[t].exc.status = status
                 /\ th'[t].exc.message = error_message
                 /\ th'[t].retry_counter = th[t].retry_counter
            /\ \A c \in {400, 500, 503, 504} :
                 /\ _get_body(Http(c, None, None)).raised
                 /\ _get_body(Http(c, None, None)).exc.cls = "HTTPError"
                 /\ _get_body(Http(c, None, None)).exc.status_code = c
                 /\ ~IsInstance(_get_body(Http(c, None, None)).exc, "_RetriableRequest")]_vars

C19_Witness ==
  \E t \in callers :
    /\ th[t].pc = "raised" /\ th[t].exc.cls = "ApiError"
    /\ th[t].exc.status = "REQUEST_DENIED" /\ th[t].exc.message = "denied"
    /\ th[t].retry_counter >= 1 /\ ~obs[t].only5xx

\* C20 (as claimed): once an API method wrapped by make_api_method has
\* finished, by returning or by raising, the client no longer holds
\* _extra_params, and the URL of a later direct _request carries no extra
\* parameter.
C20_ExtraParamsCleared ==
  /\ (\A t \in callers : th[t].pc = "idle") => extra_attr = << >>
  /\ \A t \in callers :
       (~th[t].wrapped /\ th[t].pc # "idle" /\ UrlBuilt(t)) => ExtraInUrl(t) = {}

====
